---- MODULE Spec2Model ----
(***************************************************************************)
(* Model of cyberbrain/frame.py: the per-frame event log (_EventsDict),    *)
(* the snapshot sequence, the logging entry points of class Frame and its  *)
(* queries (_knows, _latest_value_of, accumulated_events).                 *)
(*                                                                         *)
(* The instrumentation (value_stack, utils) and the delta codec (deepdiff) *)
(* are collaborators of the frame: what they hand to the frame is an input *)
(* of the corresponding action.  Assertions are modelled as enabled.       *)
(***************************************************************************)
EXTENDS Integers, Sequences, FiniteSets, TLC

(* ------------------------------ bounds -------------------------------- *)
\* Largest live value of a traced identifier; values are 0..MaxValue.
MaxValue == 1
\* Largest number of events stored in a frame.
MaxEvents == 4
\* Largest number of events stored in a frame that is also queried.
MaxQueryEvents == 3

(* ------------------------------ inputs -------------------------------- *)
\* Identifiers of the traced program.
Names == {"x", "y"}
\* frame.f_builtins: names of builtins like "range".
f_builtins == {"range"}
AllNames == Names \cup f_builtins
Values == 0..MaxValue
\* A live value that is an instance of api.Tracer.
TracerObj == MaxValue + 1

\* What the live frame says about a target when the frame is called:
\* whether the name is resolvable and, if it is, its value.
FrameViews ==
    {[exists |-> FALSE, value |-> 0]}
        \cup {[exists |-> TRUE, value |-> v] : v \in Values \cup {TracerObj}}

\* event_info.sources: the identifiers read to produce the new value of t.
SourceSets(t) == {{}, Names \ {t}}

\* What value_stack.emit_event_and_update_stack returns: nothing, or the
\* target, the type and the sources of the change.
NoEventInfo == [type |-> "None", target |-> "", sources |-> {}]
EventInfos ==
    {NoEventInfo}
        \cup UNION {{[type |-> "Mutation", target |-> t, sources |-> s] :
                        s \in SourceSets(t)} : t \in Names}
        \cup {[type |-> "Deletion", target |-> t, sources |-> {}] : t \in Names}

(* ------------------------------ state --------------------------------- *)
VARIABLES
    raw_events,       \* Frame.raw_events: name -> list of events
    raw_keys,         \* the names that have an entry in raw_events
    snapshots,        \* Frame.snapshots: list of events_pointer mappings
    latest_snapshot,  \* Frame._latest_snapshot
    observed,         \* per stored event, in order of storing: the live value
    err,              \* how the last call on the frame ended
    ret               \* what the last call on the frame returned

vars == <<raw_events, raw_keys, snapshots, latest_snapshot, observed, err, ret>>

_INITIAL_STATE == -1

Ok == "ok"
AttributeError == "AttributeError: does not exist in frame"
AssertTarget == "AssertionError: event.target"
AssertTwice == "AssertionError: InitialValue shouldn't be added twice"
AssertFirst == "AssertionError: type(relevant_events[0]) in {InitialValue, Creation}"
AssertMutation == "AssertionError: type(mutation) is Mutation"
\* result[name][-1] of accumulated_events on an empty list, and .value of
\* an event that has no value.
IndexError == "IndexError: list index out of range"
NoValueError == "AttributeError: object has no attribute 'value'"

\* The return values: None (also when the call raised), a bool, a value of
\* the traced program, the mapping of accumulated_events.
None == [kind |-> "None"]
BoolResult(b) == [kind |-> "bool", val |-> b]
ValueResult(v) == [kind |-> "value", val |-> v]
EventsResult(d) == [kind |-> "events", val |-> d]

(* ------------------------------ events -------------------------------- *)
InitialValue(target, value) ==
    [type |-> "InitialValue", target |-> target, value |-> value]
Creation(target, value, sources) ==
    [type |-> "Creation", target |-> target, value |-> value, sources |-> sources]
Mutation(target, delta, sources) ==
    [type |-> "Mutation", target |-> target, delta |-> delta, sources |-> sources]
Deletion(target) ==
    [type |-> "Deletion", target |-> target]

(* ---------------------------- delta codec ----------------------------- *)
\* DeepDiff(old, new) wrapped in a Delta, and value + delta.  The codec is
\* modelled on the integers modulo MaxValue + 1, where every delta of a
\* chain contributes to the result and apply(v, diff(v, w)) = w.
Modulus == MaxValue + 1
DeepDiff(old, new) == (new - old + Modulus) % Modulus
ApplyDelta(value, delta) == (value + delta) % Modulus

(* --------------------------- _EventsDict ------------------------------ *)
\* self[name] of a defaultdict(list): reading a missing name adds it with
\* an empty list.
getitem_keys(keys, name) == keys \cup {name}

\* A membership test that forgets the tombstone.
contains_without_tombstone(events_dict, name) ==
    events_dict[name] # <<>>

\* _EventsDict.__contains__: the answer of "name in raw_events".
contains(events_dict, name) ==
    LET events == events_dict[name]
    IN  IF events = <<>> THEN FALSE
        ELSE IF events[Len(events)].type = "Deletion" THEN FALSE
        ELSE TRUE

\* Frame._knows
_knows(events_dict, name) == contains(events_dict, name)

(* ------------------------- Frame._latest_value_of --------------------- *)
RECURSIVE fold_mutations(_, _, _)
\* The loop over relevant_events[1:]: value += mutation.delta, every event
\* asserted to be a Mutation.
fold_mutations(value, events, i) ==
    IF i > Len(events) THEN [err |-> Ok, value |-> value]
    ELSE IF events[i].type # "Mutation" THEN [err |-> AssertMutation, value |-> value]
    ELSE fold_mutations(ApplyDelta(value, events[i].delta), events, i + 1)

\* The body of _latest_value_of after the membership test, on a list of
\* events.
fold_events(relevant_events) ==
    IF relevant_events[1].type \notin {"InitialValue", "Creation"}
    THEN [err |-> AssertFirst, value |-> 0]
    ELSE fold_mutations(relevant_events[1].value, relevant_events, 2)

_latest_value_of(events_dict, name) ==
    IF ~contains(events_dict, name)
    THEN [err |-> AttributeError, value |-> 0]
    ELSE fold_events(events_dict[name])

\* The first event's value updated in place by "value += mutation.delta".
latest_value_stored_in_place(events_dict, name) ==
    IF _latest_value_of(events_dict, name).err # Ok THEN events_dict
    ELSE [events_dict EXCEPT
             ![name][1].value = _latest_value_of(events_dict, name).value]

\* raw_events after _latest_value_of returned: "value += mutation.delta"
\* rebinds the local name to the result of Delta.__radd__, which works on
\* a copy, so the value of the first event stays as it was stored.
latest_value_stored(events_dict, name) ==
    events_dict

(* ---------------------- Frame.accumulated_events ---------------------- *)
\* The value of the first entry taken instead of the previous entry's.
previous_value_from_first(result) ==
    result[1].value

\* result[name][-1].value
previous_value(result) ==
    result[Len(result)].value

\* copy(raw_event) with event.value set.
mutation_with_value(raw_event, value) ==
    [type |-> "Mutation", target |-> raw_event.target, delta |-> raw_event.delta,
     sources |-> raw_event.sources, value |-> value]

RECURSIVE accumulate(_, _, _)
\* The inner loop of accumulated_events over the raw events of one name.
accumulate(raw, i, result) ==
    IF i > Len(raw) THEN [err |-> Ok, events |-> result]
    ELSE IF raw[i].type # "Mutation"
         THEN accumulate(raw, i + 1, Append(result, raw[i]))
    ELSE IF result = <<>> THEN [err |-> IndexError, events |-> result]
    ELSE IF result[Len(result)].type = "Deletion"
         THEN [err |-> NoValueError, events |-> result]
    ELSE accumulate(raw, i + 1,
             Append(result,
                    mutation_with_value(
                        raw[i], ApplyDelta(previous_value(result), raw[i].delta))))

\* Frame.accumulated_events: per name the events with the accumulated
\* value; a name without events has no entry (an empty list here).
accumulated_events(events_dict) ==
    LET per == [n \in AllNames |-> accumulate(events_dict[n], 1, <<>>)]
        failed == {n \in AllNames : per[n].err # Ok}
    IN  IF failed # {}
        THEN [err |-> per[CHOOSE n \in failed : TRUE].err,
              val |-> [n \in AllNames |-> <<>>]]
        ELSE [err |-> Ok, val |-> [n \in AllNames |-> per[n].events]]

\* The value set on the raw event itself (no copy).
accumulated_stored_no_copy(events_dict) ==
    IF accumulated_events(events_dict).err # Ok THEN events_dict
    ELSE accumulated_events(events_dict).val

\* raw_events after accumulated_events returned: the value is set on a
\* copy of the raw event, so the stored events are as they were.
accumulated_stored(events_dict) ==
    events_dict

(* -------------------------- Frame._add_new_event ---------------------- *)
\* The increment forgotten.
new_events_pointer_not_incremented(snaps, target) ==
    snaps[Len(snaps)]

\* The copy taken from the first snapshot instead of the last.
new_events_pointer_from_first(snaps, target) ==
    [snaps[1] EXCEPT ![target] = @ + 1]

\* new_events_pointer: a copy of the last snapshot's pointers with the
\* target's pointer incremented.
new_events_pointer(snaps, target) ==
    [snaps[Len(snaps)] EXCEPT ![target] = @ + 1]

\* The pointer mapping of the last snapshot incremented in place (no copy)
\* and used for the new snapshot too.
append_snapshot_shared(snaps, target) ==
    Append([snaps EXCEPT ![Len(snaps)] = new_events_pointer(snaps, target)],
           new_events_pointer(snaps, target))

\* The new snapshot stored over the last one instead of after it.
append_snapshot_overwriting(snaps, target) ==
    [snaps EXCEPT ![Len(snaps)] = new_events_pointer(snaps, target)]

\* The snapshot list after the new snapshot is appended.  The new pointer
\* mapping is a copy, so the earlier snapshots are not touched.
append_snapshot(snaps, target) ==
    Append(snaps, new_events_pointer(snaps, target))

\* The second assertion left out.
add_new_event_error_target_only(events_dict, event) ==
    IF event.target = "" THEN AssertTarget ELSE Ok

\* The check of the two assertions of _add_new_event.
add_new_event_error(events_dict, event) ==
    IF event.target = "" THEN AssertTarget
    ELSE IF events_dict[event.target] # <<>> /\ event.type = "InitialValue"
         THEN AssertTwice
    ELSE Ok

\* The event stored although an assertion failed (the assertions placed
\* after the append).
stored_events_before_check(events_dict, event, e) ==
    [events_dict EXCEPT ![event.target] = Append(@, event)]

\* raw_events after _add_new_event: the event is appended to its target's
\* list when both assertions passed, and nothing is touched otherwise.
stored_events(events_dict, event, e) ==
    IF e # Ok THEN events_dict
    ELSE [events_dict EXCEPT ![event.target] = Append(@, event)]

\* _add_new_event(event), where live is the value the instrumentation saw
\* for the target when it built the event.
_add_new_event(event, live) ==
    LET e == add_new_event_error(raw_events, event)
    IN  /\ err' = e
        /\ raw_keys' = IF event.target = "" THEN raw_keys
                       ELSE getitem_keys(raw_keys, event.target)
        /\ raw_events' = stored_events(raw_events, event, e)
        /\ IF e # Ok
           THEN UNCHANGED <<snapshots, latest_snapshot, observed>>
           ELSE /\ snapshots' = append_snapshot(snapshots, event.target)
                /\ latest_snapshot' = new_events_pointer(snapshots, event.target)
                /\ observed' = Append(observed, [target |-> event.target, live |-> live])

(* --------------------- Frame.log_initial_value_events ----------------- *)
log_initial_value_events(target, view) ==
    IF (view.exists /\ view.value = TracerObj) \/ target \in f_builtins
    THEN /\ err' = Ok
         /\ UNCHANGED <<raw_events, raw_keys, snapshots, latest_snapshot, observed>>
    ELSE IF view.exists /\ ~_knows(raw_events, target)
    THEN _add_new_event(InitialValue(target, view.value), view)
    ELSE /\ err' = Ok
         \* "and" evaluates _knows only when the name exists in the frame
         /\ raw_keys' = IF view.exists THEN getitem_keys(raw_keys, target)
                        ELSE raw_keys
         /\ UNCHANGED <<raw_events, snapshots, latest_snapshot, observed>>

(* ----------------------------- Frame.log_events ----------------------- *)
\* The two branches on _knows exchanged.
event_kind_exchanged(event_info, known) ==
    IF event_info.type = "Mutation"
    THEN IF known THEN "Creation" ELSE "Mutation"
    ELSE "Deletion"

\* The class of the event log_events builds for a change: the branches on
\* event_info.type and on _knows(target).
event_kind(event_info, known) ==
    IF event_info.type = "Mutation"
    THEN IF known THEN "Mutation" ELSE "Creation"
    ELSE "Deletion"

log_events(event_info, view) ==
    IF event_info = NoEventInfo
    THEN /\ err' = Ok
         /\ UNCHANGED <<raw_events, raw_keys, snapshots, latest_snapshot, observed>>
    ELSE
    LET target == event_info.target
        kind == event_kind(event_info,
                           event_info.type = "Mutation" /\ _knows(raw_events, target))
    IN
    IF kind # "Deletion"
    THEN IF kind = "Mutation"
         THEN LET latest == _latest_value_of(raw_events, target)
              IN  IF latest.err # Ok
                  THEN /\ err' = latest.err
                       /\ raw_keys' = getitem_keys(raw_keys, target)
                       /\ UNCHANGED <<raw_events, snapshots, latest_snapshot, observed>>
                  ELSE _add_new_event(
                           Mutation(target, DeepDiff(latest.value, view.value),
                                    event_info.sources),
                           view)
         ELSE _add_new_event(Creation(target, view.value, event_info.sources), view)
    ELSE _add_new_event(Deletion(target), view)

(* ------------------------ Frame.get_tracing_result ------------------- *)
\* The method has a docstring and no statement: it returns None, whatever
\* the events of the frame are.
get_tracing_result ==
    [type |-> "NoneType", items |-> {}]

(* --------------------------- specification ---------------------------- *)
Init ==
    /\ raw_events = [n \in AllNames |-> <<>>]
    /\ raw_keys = {}
    /\ snapshots = <<[n \in AllNames |-> _INITIAL_STATE]>>
    /\ latest_snapshot = snapshots[1]
    /\ observed = <<>>
    /\ err = Ok
    /\ ret = None

HasRoom == Len(snapshots) <= MaxEvents

LogInitialValueEvents ==
    /\ HasRoom
    /\ ret' = None
    /\ \E target \in AllNames, view \in FrameViews :
           log_initial_value_events(target, view)

LogEvents ==
    /\ HasRoom
    /\ ret' = None
    /\ \E event_info \in EventInfos :
           /\ \E view \in FrameViews :
                  \* after a store the name is bound to a value, after a
                  \* delete the name is gone from the frame
                  /\ event_info.type = "Mutation" =>
                         view.exists /\ view.value \in Values
                  /\ event_info.type # "Mutation" => ~view.exists
                  /\ log_events(event_info, view)

Next == LogInitialValueEvents \/ LogEvents

Spec == Init /\ [][Next]_vars

(* ------------------ specification with the queries -------------------- *)
\* A call of _knows(name): "name in self.raw_events".
Knows(name) ==
    /\ ret' = BoolResult(_knows(raw_events, name))
    /\ raw_keys' = getitem_keys(raw_keys, name)
    /\ err' = Ok
    /\ UNCHANGED <<raw_events, snapshots, latest_snapshot, observed>>

\* A call of _latest_value_of(name).
LatestValueOf(name) ==
    LET latest == _latest_value_of(raw_events, name)
    IN  /\ err' = latest.err
        /\ ret' = IF latest.err = Ok THEN ValueResult(latest.value) ELSE None
        \* "name not in self.raw_events" reads self[name]
        /\ raw_keys' = getitem_keys(raw_keys, name)
        /\ raw_events' = latest_value_stored(raw_events, name)
        /\ UNCHANGED <<snapshots, latest_snapshot, observed>>

\* A read of the property accumulated_events.
AccumulatedEvents ==
    LET accumulated == accumulated_events(raw_events)
    IN  /\ err' = accumulated.err
        /\ ret' = IF accumulated.err = Ok THEN EventsResult(accumulated.val)
                  ELSE None
        /\ raw_events' = accumulated_stored(raw_events)
        /\ UNCHANGED <<raw_keys, snapshots, latest_snapshot, observed>>

KnowsCall == \E name \in Names : Knows(name)

LatestValueOfCall == \E name \in Names : LatestValueOf(name)

AccumulatedEventsCall == AccumulatedEvents

HasQueryRoom == Len(snapshots) <= MaxQueryEvents

LogInitialValueEventsCall == HasQueryRoom /\ LogInitialValueEvents

LogEventsCall == HasQueryRoom /\ LogEvents

NextQueries ==
    \/ LogInitialValueEventsCall
    \/ LogEventsCall
    \/ KnowsCall
    \/ LatestValueOfCall
    \/ AccumulatedEventsCall

SpecQueries == Init /\ [][NextQueries]_vars

(* ------------------------------ claims -------------------------------- *)
Last(seq) == seq[Len(seq)]

\* The identifier of an event: its target and its index in the target's list.
Uid(name, index) == <<name, index>>

\* The value of name at a snapshot: the events of name up to the one the
\* snapshot points to, folded as _latest_value_of folds them.
ValueAt(snapshot, name) ==
    fold_events(SubSeq(raw_events[name], 1, snapshot[name] + 1))

\* C1 - Reconstruction correctness: for every stored event that carries a
\* value, folding its target's events up to the pointer of the snapshot
\* created with the event yields the live value observed for the event.
C1_ReconstructionCorrect ==
    \A k \in 1..Len(observed) :
        observed[k].live.exists =>
            ValueAt(snapshots[k + 1], observed[k].target)
                = [err |-> Ok, value |-> observed[k].live.value]

\* C2 - Snapshot monotonicity: consecutive snapshots differ in exactly one
\* identifier's pointer, which is larger by exactly 1 in the later one.
C2_SnapshotMonotonic ==
    \A i \in 1..(Len(snapshots) - 1) :
        \E t \in AllNames :
            /\ snapshots[i + 1][t] = snapshots[i][t] + 1
            /\ \A u \in AllNames \ {t} : snapshots[i + 1][u] = snapshots[i][u]

C2_Witness ==
    /\ Len(snapshots) >= 4
    /\ \E i, j \in 1..(Len(snapshots) - 1) :
           /\ snapshots[i + 1]["x"] # snapshots[i]["x"]
           /\ snapshots[j + 1]["y"] # snapshots[j]["y"]

\* The swap scenario: x and y created, then each mutated to the value of
\* the other with the other as its source.
SwapScenario ==
    /\ Len(observed) = 4
    /\ observed[1].target = "x" /\ observed[2].target = "y"
    /\ observed[3].target = "x" /\ observed[4].target = "y"
    /\ raw_events["x"][1].type = "Creation" /\ raw_events["y"][1].type = "Creation"
    /\ raw_events["x"][2].type = "Mutation" /\ raw_events["y"][2].type = "Mutation"
    /\ raw_events["x"][2].sources = {"y"} /\ raw_events["y"][2].sources = {"x"}
    /\ observed[1].live.value # observed[2].live.value
    /\ observed[3].live.value = observed[2].live.value
    /\ observed[4].live.value = observed[1].live.value

\* C3 - Causal tracing is index-bound: in the swap scenario the tracing
\* result maps Mutation(x) to {Creation(y)} and Mutation(y) to {Creation(x)}.
C3_SwapTracing ==
    SwapScenario =>
        get_tracing_result =
            [type |-> "dict",
             items |-> {<<Uid("x", 2), {Uid("y", 1)}>>,
                        <<Uid("y", 2), {Uid("x", 1)}>>}]

RECURSIVE TotalEvents(_)
\* The number of events stored for the identifiers of a set.
TotalEvents(names) ==
    IF names = {} THEN 0
    ELSE LET n == CHOOSE m \in names : TRUE
         IN  Len(raw_events[n]) + TotalEvents(names \ {n})

\* C4 - One snapshot per stored event: the number of snapshots is 1 (the
\* seed snapshot, all pointers -1) plus the number of stored events, and
\* latest_snapshot is the last snapshot.
C4_OneSnapshotPerEvent ==
    /\ Len(snapshots) = 1 + TotalEvents(AllNames)
    /\ \A n \in AllNames : snapshots[1][n] = -1
    /\ latest_snapshot = Last(snapshots)

C4_Witness ==
    /\ Len(snapshots) = 4
    /\ raw_events["x"] # <<>> /\ raw_events["y"] # <<>>
    /\ err # Ok

\* C5 - A snapshot's pointer is the index of the latest event at that
\* point: the pointer of T in the snapshot taken after k events is the
\* number of those events that target T, minus 1; and the latest snapshot
\* points to the last event of every identifier.
C5_PointerIsLatestIndex ==
    /\ \A k \in 0..(Len(snapshots) - 1) : \A T \in AllNames :
           snapshots[k + 1][T] =
               Cardinality({j \in 1..k : observed[j].target = T}) - 1
    /\ \A T \in AllNames : latest_snapshot[T] = Len(raw_events[T]) - 1

C5_Witness ==
    /\ Len(raw_events["x"]) = 2
    /\ Len(raw_events["y"]) = 1
    /\ observed[1].target = "x" /\ observed[2].target = "y"
    /\ snapshots[3]["range"] = -1

\* C6 - Issued snapshots are immutable: a step keeps every snapshot of the
\* sequence as it was and at most adds one snapshot at the end.
C6_SnapshotsImmutable ==
    [][/\ Len(snapshots') \in {Len(snapshots), Len(snapshots) + 1}
       /\ \A i \in 1..Len(snapshots) : snapshots'[i] = snapshots[i]]_vars

C6_Witness ==
    /\ Len(snapshots) = 4
    /\ snapshots[2]["x"] = 0 /\ snapshots[3]["x"] = 1 /\ snapshots[4]["y"] = 0

\* The target is tombstoned: it has events and the last one is a Deletion.
Tombstoned(events_dict, t) ==
    events_dict[t] # <<>> /\ Last(events_dict[t]).type = "Deletion"

\* C7 - Tombstone semantics: contains(target) is false exactly when the
\* target has no events or its last event is a Deletion; it is false right
\* after a Deletion is stored, and a tombstoned target gets known again only
\* by a Creation stored after the Deletion.
C7_TombstoneContains ==
    [][\A t \in AllNames :
        /\ ~contains(raw_events, t)
               <=> (raw_events[t] = <<>> \/ Tombstoned(raw_events, t))
        /\ ~contains(raw_events', t)
               <=> (raw_events'[t] = <<>> \/ Tombstoned(raw_events', t))
        /\ (Len(raw_events'[t]) > Len(raw_events[t]) /\ Tombstoned(raw_events', t))
               => ~_knows(raw_events', t)
        /\ (Tombstoned(raw_events, t) /\ raw_events'[t] # raw_events[t])
               => /\ Len(raw_events'[t]) = Len(raw_events[t]) + 1
                  /\ SubSeq(raw_events'[t], 1, Len(raw_events[t])) = raw_events[t]
                  /\ Last(raw_events'[t]).type \in {"Creation", "Deletion"}
                  /\ _knows(raw_events', t)
                         <=> Last(raw_events'[t]).type = "Creation"]_vars

C7_Witness ==
    /\ Len(raw_events["x"]) = 3
    /\ raw_events["x"][2].type = "Deletion"
    /\ raw_events["x"][3].type = "Creation"
    /\ Tombstoned(raw_events, "y")
    /\ _knows(raw_events, "x") /\ ~_knows(raw_events, "y")

\* The kind of event a change notification must produce.
ExpectedKind(event_info) ==
    IF event_info.type = "Deletion" THEN "Deletion"
    ELSE IF contains(raw_events, event_info.target) THEN "Mutation"
    ELSE "Creation"

\* C8 - Classification: every change notification stores exactly one event
\* for the target: a Deletion for a deletion, otherwise a Mutation when the
\* target is contained, otherwise a Creation with the new value.
C8_Classification ==
    [][\A event_info \in EventInfos \ {NoEventInfo} : \A view \in FrameViews :
        log_events(event_info, view) =>
            LET t == event_info.target IN
            /\ Len(raw_events'[t]) = Len(raw_events[t]) + 1
            /\ SubSeq(raw_events'[t], 1, Len(raw_events[t])) = raw_events[t]
            /\ Last(raw_events'[t]).type = ExpectedKind(event_info)
            /\ \A u \in AllNames \ {t} : raw_events'[u] = raw_events[u]]_vars

\* C9 - InitialValue at most once: an InitialValue offered for a target
\* that has events fails with the assertion error and stores nothing, so an
\* InitialValue is only ever the first event of an identifier.
C9_InitialValueOnce ==
    [][/\ \A t \in AllNames : \A i \in 1..Len(raw_events'[t]) :
              raw_events'[t][i].type = "InitialValue" => i = 1
       /\ \A t \in Names : \A view \in FrameViews :
              ( /\ log_initial_value_events(t, view)
                /\ view.exists /\ view.value \in Values
                /\ Tombstoned(raw_events, t) )
              => /\ err' = AssertTwice
                 /\ raw_events' = raw_events
                 /\ snapshots' = snapshots
                 /\ latest_snapshot' = latest_snapshot
       /\ \A t \in Names : \A v \in Values :
              raw_events'[t] # <<>> =>
                  add_new_event_error(raw_events', InitialValue(t, v)) = AssertTwice
       /\ err' = AssertTwice => raw_events' = raw_events]_vars

C9_Witness ==
    /\ err = AssertTwice
    /\ \E t \in Names : raw_events[t] # <<>> /\ raw_events[t][1].type = "InitialValue"

\* C10 - The first event of every identifier that has events is an
\* InitialValue or a Creation.
C10_FirstEventCreates ==
    \A t \in AllNames :
        raw_events[t] # <<>> =>
            raw_events[t][1].type \in {"InitialValue", "Creation"}

\* A step leaves the event lists, the snapshots and latest_snapshot alone.
NothingRecorded ==
    /\ raw_events' = raw_events
    /\ snapshots' = snapshots
    /\ latest_snapshot' = latest_snapshot

\* A step stores one event at the end of one target's list and adds one
\* snapshot, which becomes latest_snapshot.
OneEventRecorded ==
    /\ \E t \in AllNames :
           /\ Len(raw_events'[t]) = Len(raw_events[t]) + 1
           /\ SubSeq(raw_events'[t], 1, Len(raw_events[t])) = raw_events[t]
           /\ Last(raw_events'[t]).target = t
           /\ \A u \in AllNames \ {t} : raw_events'[u] = raw_events[u]
    /\ Len(snapshots') = Len(snapshots) + 1
    /\ SubSeq(snapshots', 1, Len(snapshots)) = snapshots
    /\ latest_snapshot' = Last(snapshots')

\* C11 - Append atomicity: a call either stores one event and adds exactly
\* one snapshot, or leaves event lists, snapshots and latest_snapshot as
\* they were, which is the case whenever it ends with an error; no state
\* has an event without its snapshot or a snapshot without its event.
C11_AppendAtomic ==
    [][/\ err' # Ok => NothingRecorded
       /\ NothingRecorded \/ (err' = Ok /\ OneEventRecorded)
       /\ \A t \in AllNames :
              /\ latest_snapshot'[t] = Len(raw_events'[t]) - 1
              /\ Last(snapshots')[t] = Len(raw_events'[t]) - 1]_vars

C11_Witness ==
    /\ err \in {AssertFirst, AssertMutation}
    /\ Len(snapshots) >= 3
    /\ \E t \in Names : Len(raw_events[t]) >= 2

\* The type of the event before index i of a list; "NonExistent" before the
\* first event.
TypeBefore(events, i) ==
    IF i = 1 THEN "NonExistent" ELSE events[i - 1].type

\* C12 - Lifecycle: an InitialValue or a Creation is stored only for an
\* identifier that does not exist (no event yet, or a Deletion last), a
\* Mutation or a Deletion only for an existing one; so no list starts with
\* a Deletion and no Deletion follows a Deletion.
C12_Lifecycle ==
    \A t \in AllNames : \A i \in 1..Len(raw_events[t]) :
        /\ raw_events[t][i].type \in {"InitialValue", "Creation"} =>
               TypeBefore(raw_events[t], i) \in {"NonExistent", "Deletion"}
        /\ raw_events[t][i].type \in {"Mutation", "Deletion"} =>
               TypeBefore(raw_events[t], i) \in {"InitialValue", "Creation", "Mutation"}

\* C13 - The event log is append-only: over every call (logging or query)
\* and for every identifier, the event list before the call is a prefix of
\* the list after it, with every stored event (type, value, delta) as it
\* was stored.
C13_AppendOnly ==
    [][\A n \in AllNames :
        /\ Len(raw_events'[n]) >= Len(raw_events[n])
        /\ SubSeq(raw_events'[n], 1, Len(raw_events[n])) = raw_events[n]]_vars

C13_Witness ==
    /\ ret.kind = "value"
    /\ \E t \in Names :
           /\ Len(raw_events[t]) = 3
           /\ raw_events[t][2].type = "Mutation" /\ raw_events[t][2].delta # 0
           /\ raw_events[t][3].type = "Mutation"
           /\ ret = ValueResult(_latest_value_of(raw_events, t).value)
           /\ ret.val # raw_events[t][1].value

\* The errors of the LookupError kind (LookupError, KeyError, IndexError).
LookupErrors == {"LookupError", "KeyError", IndexError}

\* The state of the frame: event lists with their entries, snapshots and
\* latest_snapshot.
FrameStateUnchanged ==
    UNCHANGED <<raw_events, raw_keys, snapshots, latest_snapshot>>

\* C14 - The latest value of an identifier without events: the query fails
\* with an error of the LookupError kind, returns no value and leaves the
\* state of the frame unchanged.
C14_UnknownIsLookupError ==
    [][\A name \in Names :
        (LatestValueOf(name) /\ raw_events[name] = <<>>) =>
            /\ err' \in LookupErrors
            /\ ret' = None
            /\ FrameStateUnchanged]_vars

\* C15 - accumulated_events is idempotent and free of side effects: a call
\* returns the accumulated events without an error, the next call returns
\* an equal result, and the call changes no stored event (a stored Mutation
\* keeps its delta and gains no value) and no snapshot.
C15_AccumulatedIdempotent ==
    [][AccumulatedEvents =>
        /\ err' = Ok
        /\ ret' = EventsResult(accumulated_events(raw_events).val)
        /\ accumulated_events(raw_events').err = Ok
        /\ accumulated_events(raw_events').val = ret'.val
        /\ ret.kind = "events" => ret' = ret
        /\ raw_events' = raw_events
        /\ \A n \in AllNames : \A i \in 1..Len(raw_events'[n]) :
               raw_events'[n][i].type = "Mutation" =>
                   DOMAIN raw_events'[n][i] = {"type", "target", "delta", "sources"}
        /\ snapshots' = snapshots
        /\ latest_snapshot' = latest_snapshot]_vars

C15_Witness ==
    /\ ret.kind = "events"
    /\ ret = EventsResult(accumulated_events(raw_events).val)
    /\ \E t \in Names :
           /\ Len(raw_events[t]) >= 2
           /\ raw_events[t][2].type = "Mutation"
           /\ ret.val[t][2].value # ret.val[t][1].value
    /\ \E u \in Names : raw_events[u] # <<>> /\ Last(raw_events[u]).type = "Deletion"

\* C16 - No fold through a tombstone: whenever an identifier is contained,
\* its list is one InitialValue or Creation followed only by Mutations, so
\* no logging call ends in one of the assertions of _latest_value_of.
C16_NoFoldThroughTombstone ==
    /\ err \notin {AssertFirst, AssertMutation}
    /\ \A t \in Names :
           contains(raw_events, t) =>
               /\ raw_events[t][1].type \in {"InitialValue", "Creation"}
               /\ \A i \in 2..Len(raw_events[t]) : raw_events[t][i].type = "Mutation"

\* C17 - log_initial_value_events offers an InitialValue only for a target
\* that is resolvable, not contained and without any event; for a
\* tombstoned target it records nothing and does not end in the
\* "InitialValue shouldn't be added twice" assertion.
C17_InitialValueOnlyWhenNew ==
    [][\A t \in AllNames : \A view \in FrameViews :
        log_initial_value_events(t, view) =>
            /\ err' # AssertTwice
            /\ raw_events' # raw_events =>
                   /\ view.exists
                   /\ ~contains(raw_events, t)
                   /\ raw_events[t] = <<>>
            /\ Tombstoned(raw_events, t) =>
                   (err' = Ok /\ raw_events' = raw_events /\ snapshots' = snapshots)]_vars

\* C18 - Every Mutation directly follows an InitialValue, a Creation or a
\* Mutation of the same identifier (never a Deletion, never first), and
\* every Creation is first or directly follows a Deletion.
C18_MutationAndCreationOrder ==
    \A t \in AllNames : \A i \in 1..Len(raw_events[t]) :
        /\ raw_events[t][i].type = "Mutation" =>
               /\ i > 1
               /\ raw_events[t][i - 1].type \in {"InitialValue", "Creation", "Mutation"}
        /\ raw_events[t][i].type = "Creation" =>
               (i = 1 \/ raw_events[t][i - 1].type = "Deletion")

C18_Witness ==
    \E t \in Names :
        /\ Len(raw_events[t]) = 4
        /\ raw_events[t][1].type = "InitialValue"
        /\ raw_events[t][2].type = "Mutation"
        /\ raw_events[t][3].type = "Deletion"
        /\ raw_events[t][4].type = "Creation"

\* C19 - The membership query is a pure read: a call of _knows(name)
\* changes no event list and no snapshot and adds no entry to raw_events.
C19_KnowsIsPureRead ==
    [][\A name \in Names :
        Knows(name) =>
            /\ raw_events' = raw_events
            /\ snapshots' = snapshots
            /\ raw_keys' = raw_keys]_vars

\* C20 - The accumulated view agrees with the latest-value fold: for every
\* identifier whose latest value is defined, its accumulated entry has the
\* length and the event types of the raw list, in order, and the value of
\* its last entry is the latest value.
C20_AccumulatedAgreesWithLatest ==
    \A name \in Names :
        _latest_value_of(raw_events, name).err = Ok =>
            /\ accumulated_events(raw_events).err = Ok
            /\ Len(accumulated_events(raw_events).val[name]) = Len(raw_events[name])
            /\ \A i \in 1..Len(raw_events[name]) :
                   accumulated_events(raw_events).val[name][i].type
                       = raw_events[name][i].type
            /\ Last(accumulated_events(raw_events).val[name]).value
                   = _latest_value_of(raw_events, name).value

C20_Witness ==
    /\ ret.kind = "events"
    /\ \E t \in Names :
           /\ Len(raw_events[t]) = 3
           /\ raw_events[t][2].type = "Mutation" /\ raw_events[t][2].delta # 0
           /\ raw_events[t][3].type = "Mutation" /\ raw_events[t][3].delta # 0
           /\ Len(ret.val[t]) = 3
           /\ ret.val[t][3].value = _latest_value_of(raw_events, t).value

====
